---- MODULE Spec2Model ----
(***************************************************************************)
(* processLogo: background removal, 4-colour quantisation, crop and centre *)
(* of an uploaded logo.  The decoded image is a row-major sequence of RGBA *)
(* pixels; sequences are 1-based, so pixel k of the model is the source's  *)
(* byte offset i = 4 * (k - 1).                                            *)
(***************************************************************************)
EXTENDS Integers, Sequences, FiniteSets, TLC

(* ------------------------------ bounds --------------------------------- *)
MaxSide == 3
MaxPixels == 4
MaxRow == 6
MaxRegionRow == 7
MaxParRows == 4
MaxParPixels == 4

(* ------------------------- program constants --------------------------- *)
BgTolerance == 40
AlphaThreshold == 20
bucketSize == 24
MaxPalette == 4
MinDifference == 45
Opaque == 255
Infinity == 195076
MarginTenths == 12
DefaultScale == 30
FallbackScale == 36
ErrorScale == 35
MinScale == 10
MaxScale == 39

(* ------------------------------ helpers -------------------------------- *)
Px(r, g, b, a) == [r |-> r, g |-> g, b |-> b, a |-> a]

Max(a, b) == IF a >= b THEN a ELSE b

Min(a, b) == IF a <= b THEN a ELSE b

\* Math.round(n / d) for n >= 0, d > 0: halves round up
Round(n, d) == (2 * n + d) \div (2 * d)

\* the radicand of Math.sqrt(Math.pow(..,2) + Math.pow(..,2) + Math.pow(..,2))
Dist2(p, q) ==
  (p.r - q.r) * (p.r - q.r) + (p.g - q.g) * (p.g - q.g) + (p.b - q.b) * (p.b - q.b)

\* Math.sqrt(d2) < t, for an integer radicand d2 and an integer threshold t
SqrtLess(d2, t) == d2 < t * t

(* --------------------- 1./2. background removal ------------------------ *)
IsBackgroundLax(p, bg, hasAlpha) ==
  IF ~hasAlpha
    THEN Dist2(p, bg) <= BgTolerance * BgTolerance
    ELSE p.a <= AlphaThreshold

IsBackgroundNonZero(p, bg, hasAlpha) ==
  IF ~hasAlpha
    THEN Dist2(p, bg) > 0 /\ SqrtLess(Dist2(p, bg), BgTolerance)
    ELSE p.a > 0 /\ p.a < AlphaThreshold

IsBackground(p, bg, hasAlpha) ==
  IF ~hasAlpha
    THEN SqrtLess(Dist2(p, bg), BgTolerance)
    ELSE p.a < AlphaThreshold

BucketKey(p) ==
  << Round(p.r, bucketSize) * bucketSize,
     Round(p.g, bucketSize) * bucketSize,
     Round(p.b, bucketSize) * bucketSize >>

AccumulateLastOnly(acc, p) ==
  LET key == BucketKey(p)
      hit == {j \in 1..Len(acc) : acc[j].key = key}
  IN  IF hit = {}
        THEN Append(acc, [key |-> key, r |-> p.r, g |-> p.g, b |-> p.b, count |-> 1])
        ELSE [j \in 1..Len(acc) |->
                IF j \in hit
                  THEN [acc[j] EXCEPT !.r = p.r, !.g = p.g, !.b = p.b, !.count = @ + 1]
                  ELSE acc[j]]

\* colorAccumulator as the sequence of its values in key insertion order
Accumulate(acc, p) ==
  LET key == BucketKey(p)
      hit == {j \in 1..Len(acc) : acc[j].key = key}
  IN  IF hit = {}
        THEN Append(acc, [key |-> key, r |-> p.r, g |-> p.g, b |-> p.b, count |-> 1])
        ELSE [j \in 1..Len(acc) |->
                IF j \in hit
                  THEN [acc[j] EXCEPT !.r = @ + p.r, !.g = @ + p.g,
                                      !.b = @ + p.b, !.count = @ + 1]
                  ELSE acc[j]]

\* the state before the loop of pass 1
ScanInit(image) ==
  [data |-> image.data,
   isBackground |-> << >>,
   acc |-> << >>,
   minX |-> image.width, minY |-> image.height, maxX |-> 0, maxY |-> 0,
   hasContent |-> FALSE]

ScanStepElseIf(image, bg, hasAlpha, k, st) ==
  LET p == st.data[k]
      x == (k - 1) % image.width
      y == (k - 1) \div image.width
  IN  IF IsBackground(p, bg, hasAlpha)
        THEN [st EXCEPT !.data[k].a = 0,
                        !.isBackground = Append(@, TRUE)]
        ELSE [st EXCEPT !.isBackground = Append(@, FALSE),
                        !.hasContent = TRUE,
                        !.minX = Min(@, x),
                        !.maxX = IF x < st.minX THEN @ ELSE Max(@, x),
                        !.minY = Min(@, y),
                        !.maxY = IF y < st.minY THEN @ ELSE Max(@, y),
                        !.acc = Accumulate(@, p)]

\* one iteration of the loop of pass 1, on pixel k
ScanStep(image, bg, hasAlpha, k, st) ==
  LET p == st.data[k]
      x == (k - 1) % image.width
      y == (k - 1) \div image.width
  IN  IF IsBackground(p, bg, hasAlpha)
        THEN [st EXCEPT !.data[k].a = 0,
                        !.isBackground = Append(@, TRUE)]
        ELSE [st EXCEPT !.isBackground = Append(@, FALSE),
                        !.hasContent = TRUE,
                        !.minX = Min(@, x), !.maxX = Max(@, x),
                        !.minY = Min(@, y), !.maxY = Max(@, y),
                        !.acc = Accumulate(@, p)]

RECURSIVE Scan(_, _, _, _, _)
Scan(image, bg, hasAlpha, k, st) ==
  IF k > Len(image.data)
    THEN st
    ELSE Scan(image, bg, hasAlpha, k + 1, ScanStep(image, bg, hasAlpha, k, st))

\* the reference pixel and the mode are read once, before the loop
FirstPass(image) ==
  LET bg == image.data[1]
      hasAlpha == (bg.a = 0)
  IN  Scan(image, bg, hasAlpha, 1, ScanInit(image))

(* ------------------------ 3. determine palette ------------------------- *)
InsertLast(sorted, x) == Append(sorted, x)

\* insert x behind every bucket whose count is not smaller (stable)
InsertByCount(sorted, x) ==
  LET before == {j \in 1..Len(sorted) : sorted[j].count >= x.count}
      n == Cardinality(before)
  IN  [j \in 1..(Len(sorted) + 1) |->
         IF j <= n THEN sorted[j] ELSE IF j = n + 1 THEN x ELSE sorted[j - 1]]

RECURSIVE SortFrom(_, _, _)
SortFrom(acc, k, sorted) ==
  IF k > Len(acc)
    THEN sorted
    ELSE SortFrom(acc, k + 1, InsertByCount(sorted, acc[k]))

\* Object.values(colorAccumulator).sort((a, b) => b.count - a.count)
SortBuckets(acc) == SortFrom(acc, 1, << >>)

\* the true average colour of each bucket
Candidates(sorted) ==
  [j \in 1..Len(sorted) |->
     [r |-> Round(sorted[j].r, sorted[j].count),
      g |-> Round(sorted[j].g, sorted[j].count),
      b |-> Round(sorted[j].b, sorted[j].count)]]

IsDistinctFromLast(cands, pal, c) ==
  Len(pal) = 0 \/ ~SqrtLess(Dist2(cands[c], cands[pal[Len(pal)]]), MinDifference)

\* a palette is a sequence of references to candidates (their indices)
IsDistinct(cands, pal, c) ==
  \A j \in 1..Len(pal) : ~SqrtLess(Dist2(cands[c], cands[pal[j]]), MinDifference)

RECURSIVE GreedyFrom(_, _, _)
GreedyFrom(cands, c, pal) ==
  IF c > Len(cands) \/ Len(pal) >= MaxPalette
    THEN pal
    ELSE GreedyFrom(cands, c + 1,
                    IF IsDistinct(cands, pal, c) THEN Append(pal, c) ELSE pal)

Greedy(cands) == GreedyFrom(cands, 1, << >>)

Includes(pal, c) == \E j \in 1..Len(pal) : pal[j] = c

RECURSIVE FillFromUncapped(_, _, _)
FillFromUncapped(cands, i, pal) ==
  IF i <= Len(cands)
    THEN FillFromUncapped(cands, i + 1, IF ~Includes(pal, i) THEN Append(pal, i) ELSE pal)
    ELSE pal

RECURSIVE FillFrom(_, _, _)
FillFrom(cands, i, pal) ==
  IF Len(pal) < MaxPalette /\ i <= Len(cands)
    THEN FillFrom(cands, i + 1, IF ~Includes(pal, i) THEN Append(pal, i) ELSE pal)
    ELSE pal

\* fill with the top candidates regardless of distance
Fallback(cands, pal) ==
  IF Len(pal) < MaxPalette /\ Len(cands) > 0
    THEN FillFrom(cands, 1, pal)
    ELSE pal

(* -------------------------- 4. quantise image -------------------------- *)
RECURSIVE BestFromLastWins(_, _, _, _, _, _)
BestFromLastWins(p, cands, pal, j, minDist, bestColor) ==
  IF j > Len(pal)
    THEN bestColor
    ELSE LET dist == Dist2(p, cands[pal[j]])
         IN  IF dist <= minDist
               THEN BestFromLastWins(p, cands, pal, j + 1, dist, cands[pal[j]])
               ELSE BestFromLastWins(p, cands, pal, j + 1, minDist, bestColor)

\* the loop over the palette: the first strictly smaller distance wins
RECURSIVE BestFrom(_, _, _, _, _, _)
BestFrom(p, cands, pal, j, minDist, bestColor) ==
  IF j > Len(pal)
    THEN bestColor
    ELSE LET dist == Dist2(p, cands[pal[j]])
         IN  IF dist < minDist
               THEN BestFrom(p, cands, pal, j + 1, dist, cands[pal[j]])
               ELSE BestFrom(p, cands, pal, j + 1, minDist, bestColor)

BestColor(p, cands, pal) == BestFrom(p, cands, pal, 1, Infinity, cands[pal[1]])

RemapPixelNoSkip(p, cands, pal) ==
  LET best == BestColor(p, cands, pal)
  IN  Px(best.r, best.g, best.b, Opaque)

RemapPixel(p, cands, pal) ==
  IF p.a = 0
    THEN p
    ELSE LET best == BestColor(p, cands, pal)
         IN  Px(best.r, best.g, best.b, Opaque)

Remap(d, cands, pal) ==
  IF Len(pal) > 0
    THEN [k \in 1..Len(d) |-> RemapPixel(d[k], cands, pal)]
    ELSE d

(* -------------------------- 5. crop and centre ------------------------- *)
\* size = Math.max(contentWidth, contentHeight) * 1.2, in tenths of a pixel
SizeTenths(contentWidth, contentHeight) == Max(contentWidth, contentHeight) * MarginTenths

\* finalCanvas.width = size: the canvas keeps the integer part
CanvasSide(sizeTenths) == sizeTenths \div 10

\* destX = (size - contentWidth) / 2, in tenths of a pixel
DestTenths(sizeTenths, content) == (sizeTenths - 10 * content) \div 2

\* overlap, in tenths, of output cell X with source cell s drawn at offset dest
Overlap(X, s, dest) ==
  Max(0, Min(10 * X + 10, dest + 10 * s + 10) - Max(10 * X, dest + 10 * s))

\* the sum of f[e] over e in S
RECURSIVE SumOver(_, _, _)
SumOver(S, f, acc) ==
  IF S = {} THEN acc
  ELSE LET e == CHOOSE e \in S : TRUE IN SumOver(S \ {e}, f, acc + f[e])

Transparent == Px(0, 0, 0, 0)

\* the pixel of the processed canvas at content-relative cell (sx, sy)
SourcePixel(d, width, mnX, mnY, sx, sy) == d[(mnY + sy) * width + (mnX + sx) + 1]

\* one cell of finalCanvas after drawImage(canvas, minX, minY, cw, ch, destX, destY, cw, ch)
\* an aligned blit copies; a fractional offset is smoothed (coverage-weighted,
\* premultiplied), and whatever falls outside the canvas is clipped
DrawnPixel(d, width, mnX, mnY, cw, ch, dx, dy, X, Y) ==
  LET cells == {c \in (0..(cw - 1)) \X (0..(ch - 1)) :
                  Overlap(X, c[1], dx) * Overlap(Y, c[2], dy) > 0}
      W(c) == Overlap(X, c[1], dx) * Overlap(Y, c[2], dy)
      P(c) == SourcePixel(d, width, mnX, mnY, c[1], c[2])
      wa   == SumOver(cells, [c \in cells |-> W(c) * P(c).a], 0)
  IN  IF cells = {} THEN Transparent
      ELSE IF dx % 10 = 0 /\ dy % 10 = 0 THEN P(CHOOSE c \in cells : TRUE)
      ELSE IF wa = 0 THEN Transparent
      ELSE Px(Round(SumOver(cells, [c \in cells |-> W(c) * P(c).a * P(c).r], 0), wa),
              Round(SumOver(cells, [c \in cells |-> W(c) * P(c).a * P(c).g], 0), wa),
              Round(SumOver(cells, [c \in cells |-> W(c) * P(c).a * P(c).b], 0), wa),
              Round(wa, 100))

\* finalCanvas: side, the offsets (tenths) and the pixels, row-major
Crop(d, width, mnX, mnY, mxX, mxY) ==
  LET cw   == mxX - mnX + 1
      ch   == mxY - mnY + 1
      size == SizeTenths(cw, ch)
      side == CanvasSide(size)
      dx   == DestTenths(size, cw)
      dy   == DestTenths(size, ch)
  IN  [side |-> side, contentWidth |-> cw, contentHeight |-> ch,
       destX |-> dx, destY |-> dy,
       pixels |-> [k \in 1..(side * side) |->
                     DrawnPixel(d, width, mnX, mnY, cw, ch, dx, dy,
                                (k - 1) % side, (k - 1) \div side)]]

(* ------------------------------- inputs -------------------------------- *)
White == Px(255, 255, 255, 255)

\* small images over pixels that exercise both modes and every threshold
RichPixels ==
  { White,
    Px(240, 240, 240, 255),
    Px(100, 0, 0, 255),
    Px(104, 0, 0, 0),
    Px(100, 0, 0, 128),
    Px(0, 200, 0, 10),
    Px(60, 0, 0, 255) }

\* opaque colours for one-row images on a white corner
RowPixels ==
  { Px(100, 0, 0, 255), Px(60, 0, 0, 255), Px(140, 0, 0, 255),
    Px(0, 200, 0, 255), Px(0, 0, 200, 255) }

ImagesOver(w, h, pixels) ==
  {[width |-> w, height |-> h, data |-> d] : d \in [1..(w * h) -> pixels]}

SmallImages ==
  UNION {ImagesOver(wh[1], wh[2], RichPixels) :
           wh \in {s \in (1..MaxSide) \X (1..MaxSide) : s[1] * s[2] <= MaxPixels}}

RowImages ==
  UNION {{[width |-> w, height |-> 1, data |-> << White >> \o tail] :
            tail \in [1..(w - 1) -> RowPixels]} : w \in 1..MaxRow}

\* five opaque colours that are pairwise at least 45 apart
RegionPixels ==
  { Px(60, 0, 0, 255), Px(140, 0, 0, 255), Px(0, 200, 0, 255),
    Px(0, 0, 200, 255), Px(0, 200, 200, 255) }

\* one-row images on a white corner in which all five colours occur
FiveRegionRows ==
  UNION {{[width |-> w, height |-> 1, data |-> << White >> \o tail] :
            tail \in {t \in [1..(w - 1) -> RegionPixels] :
                        \A c \in RegionPixels : \E k \in 1..(w - 1) : t[k] = c}} :
           w \in 6..MaxRegionRow}

\* the same with the last pixel decoded as fully transparent
RegionImages ==
  FiveRegionRows \cup
  {[i EXCEPT !.data[6].a = 0] : i \in {j \in FiveRegionRows : j.width = 6}}

(* -------------------------------- state -------------------------------- *)
VARIABLES
  img,              \* the image that imageUrl decodes to
  stage,            \* where the invocation stands: pending, or how it ended
  isBackground,     \* pass 1: the classification of each pixel
  maskedData,       \* data after pass 1
  colorAccumulator, \* buckets in insertion order
  minX, minY, maxX, maxY,
  hasContent,
  candidates,       \* average colours, by bucket count
  counts,           \* counts[c]: pixel count of the bucket behind candidates[c]
  distinct,         \* palette.length after the greedy loop
  palette,          \* indices into candidates
  data,             \* data after pass 2 (what putImageData stores)
  finalCanvas,      \* the cropped canvas, side 0 while there is none
  resolved          \* the arguments of the calls of resolve, in order

\* pass 1 run by workers on a partition of the rows
VARIABLES
  workerRows,       \* workerRows[y]: the worker that owns row y
  workerDone,       \* workerDone[w]: how many of its pixels w has scanned
  workerLocal,      \* workerLocal[w]: buckets, box and hasContent of w
  sharedData,       \* the buffer the workers write the alpha mask into
  merged            \* the reduction of the workers' results, once made

\* the upload flow of App
VARIABLES
  activeStep,       \* 1 | 2 | 3 | 4
  analysis,         \* the AnalysisResult, or NoAnalysis
  logoConfig,       \* url and scale of the LogoConfig
  fileError,        \* Null or the message shown
  processingStatus, \* "" or the message shown
  handler,          \* where the upload handler stands, or how it ended
  rawResult,        \* event.target?.result of the FileReader
  processedImage    \* what processLogo resolved with

logoVars == << img, stage, isBackground, maskedData, colorAccumulator,
               minX, minY, maxX, maxY, hasContent, candidates, counts, distinct,
               palette, data, finalCanvas, resolved >>

parVars == << workerRows, workerDone, workerLocal, sharedData, merged >>

appVars == << activeStep, analysis, logoConfig, fileError, processingStatus,
             handler, rawResult, processedImage >>

vars == << logoVars, parVars, appVars >>

Null == "null"

\* analysis before any result: useState<AnalysisResult | null>(null)
NoAnalysis == [present |-> FALSE, isPrintable |-> FALSE, recommendedScale |-> 0]

\* the state App mounts with
AppMounted ==
  /\ activeStep = 1
  /\ analysis = NoAnalysis
  /\ logoConfig = [url |-> Null, scale |-> DefaultScale]
  /\ fileError = Null
  /\ processingStatus = ""
  /\ handler = "idle"
  /\ rawResult = Null
  /\ processedImage = Null

NotMerged == [done |-> FALSE]

\* no workers are in use
ParIdle ==
  /\ workerRows = << >>
  /\ workerDone = << >>
  /\ workerLocal = << >>
  /\ sharedData = << >>
  /\ merged = NotMerged

NoCanvas == [side |-> 0, contentWidth |-> 0, contentHeight |-> 0,
             destX |-> 0, destY |-> 0, pixels |-> << >>]

Init ==
  /\ img \in SmallImages \cup RowImages
  /\ stage = "pending"
  /\ isBackground = << >>
  /\ maskedData = << >>
  /\ colorAccumulator = << >>
  /\ minX = 0 /\ minY = 0 /\ maxX = 0 /\ maxY = 0
  /\ hasContent = FALSE
  /\ candidates = << >>
  /\ counts = << >>
  /\ distinct = 0
  /\ palette = << >>
  /\ data = << >>
  /\ finalCanvas = NoCanvas
  /\ resolved = << >>
  /\ ParIdle
  /\ AppMounted

(* ------------------------------- actions ------------------------------- *)
\* img.onerror
OnError ==
  /\ stage = "pending"
  /\ stage' = "error"
  /\ resolved' = Append(resolved, "imageUrl")
  /\ UNCHANGED << img, isBackground, maskedData, colorAccumulator,
                  minX, minY, maxX, maxY, hasContent, candidates, counts,
                  distinct, palette, data, finalCanvas >>
  /\ UNCHANGED << parVars, appVars >>

\* img.onload, canvas.getContext('2d') returns null
OnLoadNoContext ==
  /\ stage = "pending"
  /\ stage' = "noContext"
  /\ resolved' = Append(resolved, "imageUrl")
  /\ UNCHANGED << img, isBackground, maskedData, colorAccumulator,
                  minX, minY, maxX, maxY, hasContent, candidates, counts,
                  distinct, palette, data, finalCanvas >>
  /\ UNCHANGED << parVars, appVars >>

CropResolvesFallThrough(finalCtx) ==
  IF ~finalCtx THEN << "imageUrl", "dataURL" >> ELSE << "dataURL" >>

\* what the tail of the handler passes to resolve
CropResolves(finalCtx) ==
  IF ~finalCtx THEN << "imageUrl" >> ELSE << "dataURL" >>

\* img.onload with a context; finalCtx: whether the second getContext succeeds
OnLoad(finalCtx) ==
  /\ stage = "pending"
  /\ \E fp \in {FirstPass(img)} :
         /\ isBackground' = fp.isBackground
         /\ maskedData' = fp.data
         /\ colorAccumulator' = fp.acc
         /\ minX' = fp.minX /\ minY' = fp.minY
         /\ maxX' = fp.maxX /\ maxY' = fp.maxY
         /\ hasContent' = fp.hasContent
         /\ IF ~fp.hasContent
              THEN /\ stage' = "noContent"
                   /\ resolved' = Append(resolved, "imageUrl")
                   /\ UNCHANGED << candidates, counts, distinct, palette,
                                   data, finalCanvas >>
              ELSE \E sortedBuckets \in {SortBuckets(fp.acc)} :
                   \E cands \in {Candidates(sortedBuckets)} :
                   \E greedy \in {Greedy(cands)} :
                   \E pal \in {Fallback(cands, greedy)} :
                   \E out \in {Remap(fp.data, cands, pal)} :
                       /\ candidates' = cands
                       /\ counts' = [c \in 1..Len(sortedBuckets) |-> sortedBuckets[c].count]
                       /\ distinct' = Len(greedy)
                       /\ palette' = pal
                       /\ data' = out
                       /\ finalCanvas' =
                            IF finalCtx
                              THEN Crop(out, img.width, fp.minX, fp.minY, fp.maxX, fp.maxY)
                              ELSE [NoCanvas EXCEPT
                                      !.side = CanvasSide(SizeTenths(fp.maxX - fp.minX + 1,
                                                                     fp.maxY - fp.minY + 1))]
                       /\ stage' = IF finalCtx THEN "encoded" ELSE "noFinalContext"
                       /\ resolved' = resolved \o CropResolves(finalCtx)
  /\ UNCHANGED img
  /\ UNCHANGED << parVars, appVars >>

Next ==
  \/ OnError
  \/ OnLoadNoContext
  \/ \E finalCtx \in BOOLEAN : OnLoad(finalCtx)

Spec == Init /\ [][Next]_vars

\* the same program on images of five well separated colour regions
InitRegions ==
  /\ img \in RegionImages
  /\ stage = "pending"
  /\ isBackground = << >>
  /\ maskedData = << >>
  /\ colorAccumulator = << >>
  /\ minX = 0 /\ minY = 0 /\ maxX = 0 /\ maxY = 0
  /\ hasContent = FALSE
  /\ candidates = << >>
  /\ counts = << >>
  /\ distinct = 0
  /\ palette = << >>
  /\ data = << >>
  /\ finalCanvas = NoCanvas
  /\ resolved = << >>
  /\ ParIdle
  /\ AppMounted

SpecRegions == InitRegions /\ [][Next]_vars

TypeOK ==
  /\ stage \in {"pending", "error", "noContext", "noContent", "noFinalContext", "encoded"}
  /\ Len(isBackground) \in {0, Len(img.data)}

(* ---------------- pass 1 on a partition of the rows -------------------- *)
\* The rows are dealt to two workers.  Each worker scans its own pixels in
\* index order, writes the alpha mask into the shared buffer and keeps
\* buckets, box extremes and hasContent of its own; steps of the workers
\* interleave freely.  When both are through, the results are reduced.
Workers == {"w1", "w2"}

ParPixels == { White, Px(100, 0, 0, 255), Px(104, 0, 0, 0) }

ParImages ==
  UNION {ImagesOver(wh[1], wh[2], ParPixels) :
           wh \in {s \in (1..MaxParPixels) \X (2..MaxParRows) : s[1] * s[2] <= MaxParPixels}}

\* what a worker starts from: no buckets, the box at its start values
WorkerInit(image) ==
  [buckets |-> {},
   minX |-> image.width, minY |-> image.height, maxX |-> 0, maxY |-> 0,
   hasContent |-> FALSE]

\* the pixels of worker w, and the one it scans next
WorkerPixels(w) == {k \in 1..Len(img.data) : workerRows[((k - 1) \div img.width) + 1] = w}

NextPixel(w) ==
  CHOOSE k \in WorkerPixels(w) :
    Cardinality({j \in WorkerPixels(w) : j < k}) = workerDone[w]

\* add pixel p to a set of buckets [key, r, g, b, count]
AddToBuckets(buckets, p) ==
  LET key == BucketKey(p)
      old == {b \in buckets : b.key = key}
  IN  IF old = {}
        THEN buckets \cup {[key |-> key, r |-> p.r, g |-> p.g, b |-> p.b, count |-> 1]}
        ELSE (buckets \ old) \cup
             {[key |-> key, r |-> b.r + p.r, g |-> b.g + p.g, b |-> b.b + p.b,
               count |-> b.count + 1] : b \in old}

\* the bucket of a key in a worker's result, empty if it has none
BucketOf(buckets, key) ==
  IF \E b \in buckets : b.key = key
    THEN CHOOSE b \in buckets : b.key = key
    ELSE [key |-> key, r |-> 0, g |-> 0, b |-> 0, count |-> 0]

AddBuckets(x, y) ==
  [key |-> x.key, r |-> x.r + y.r, g |-> x.g + y.g, b |-> x.b + y.b,
   count |-> x.count + y.count]

\* the reduction: buckets by addition, box by min and max, hasContent by or
MergeLocals(a, b) ==
  [done |-> TRUE,
   buckets |->
     {AddBuckets(BucketOf(a.buckets, key), BucketOf(b.buckets, key)) :
        key \in {x.key : x \in a.buckets \cup b.buckets}},
   minX |-> Min(a.minX, b.minX), minY |-> Min(a.minY, b.minY),
   maxX |-> Max(a.maxX, b.maxX), maxY |-> Max(a.maxY, b.maxY),
   hasContent |-> a.hasContent \/ b.hasContent]

InitPar ==
  /\ img \in ParImages
  /\ stage = "pending"
  /\ isBackground = << >>
  /\ maskedData = << >>
  /\ colorAccumulator = << >>
  /\ minX = 0 /\ minY = 0 /\ maxX = 0 /\ maxY = 0
  /\ hasContent = FALSE
  /\ candidates = << >>
  /\ counts = << >>
  /\ distinct = 0
  /\ palette = << >>
  /\ data = << >>
  /\ finalCanvas = NoCanvas
  /\ resolved = << >>
  /\ workerRows \in [1..img.height -> Workers]
  /\ workerDone = [w \in Workers |-> 0]
  /\ workerLocal = [w \in Workers |-> WorkerInit(img)]
  /\ sharedData = img.data
  /\ merged = NotMerged
  /\ AppMounted

\* worker w classifies its next pixel against the reference read up front
WorkerStep(w) ==
  /\ ~merged.done
  /\ workerDone[w] < Cardinality(WorkerPixels(w))
  /\ LET k == NextPixel(w)
         p == sharedData[k]
         bg == img.data[1]
         x == (k - 1) % img.width
         y == (k - 1) \div img.width
     IN  IF IsBackground(p, bg, bg.a = 0)
           THEN /\ sharedData' = [sharedData EXCEPT ![k].a = 0]
                /\ UNCHANGED workerLocal
           ELSE /\ workerLocal' =
                     [workerLocal EXCEPT
                        ![w] = [buckets |-> AddToBuckets(@.buckets, p),
                                minX |-> Min(@.minX, x), minY |-> Min(@.minY, y),
                                maxX |-> Max(@.maxX, x), maxY |-> Max(@.maxY, y),
                                hasContent |-> TRUE]]
                /\ UNCHANGED sharedData
  /\ workerDone' = [workerDone EXCEPT ![w] = @ + 1]
  /\ UNCHANGED << workerRows, merged >>
  /\ UNCHANGED << logoVars, appVars >>

\* both workers are through: reduce
Merge ==
  /\ ~merged.done
  /\ \A w \in Workers : workerDone[w] = Cardinality(WorkerPixels(w))
  /\ merged' = MergeLocals(workerLocal["w1"], workerLocal["w2"])
  /\ UNCHANGED << workerRows, workerDone, workerLocal, sharedData >>
  /\ UNCHANGED << logoVars, appVars >>

NextPar ==
  \/ \E w \in Workers : WorkerStep(w)
  \/ Merge

SpecPar == InitPar /\ [][NextPar]_vars

(* --------------------------- App: upload flow -------------------------- *)
\* analyzeDesign: a non-string argument throws before the try; a failed
\* request yields the fallback result; a missing scale becomes 36
AnalyzeDesign(imageBase64, ai) ==
  IF imageBase64 = Null
    THEN [threw |-> TRUE]
    ELSE IF ai.failed
      THEN [threw |-> FALSE, isPrintable |-> FALSE, recommendedScale |-> ErrorScale]
      ELSE [threw |-> FALSE, isPrintable |-> ai.isPrintable,
            recommendedScale |-> IF ai.recommendedScale = 0 THEN FallbackScale
                                                           ELSE ai.recommendedScale]

\* what the remote analysis can answer
AiAnswers ==
  [failed : {FALSE}, isPrintable : BOOLEAN, recommendedScale : {0, 30, 39}]
    \cup {[failed |-> TRUE, isPrintable |-> FALSE, recommendedScale |-> 0]}

StepAfterAnalysisAlways(aiResult, step) == 3

\* if (aiResult.isPrintable) setActiveStep(3)
StepAfterAnalysis(aiResult, step) == IF aiResult.isPrintable THEN 3 ELSE step

LogoIdle ==
  /\ img = [width |-> 1, height |-> 1, data |-> << White >>]
  /\ stage = "pending"
  /\ isBackground = << >>
  /\ maskedData = << >>
  /\ colorAccumulator = << >>
  /\ minX = 0 /\ minY = 0 /\ maxX = 0 /\ maxY = 0
  /\ hasContent = FALSE
  /\ candidates = << >>
  /\ counts = << >>
  /\ distinct = 0
  /\ palette = << >>
  /\ data = << >>
  /\ finalCanvas = NoCanvas
  /\ resolved = << >>

InitApp == LogoIdle /\ ParIdle /\ AppMounted

\* the file input is rendered at step 1 only
InputShown == activeStep = 1 /\ handler \notin {"reading", "processLogo", "analyzeDesign"}

\* handleFileUpload without a file
UploadNoFile ==
  /\ InputShown
  /\ handler' = "noFile"
  /\ UNCHANGED << activeStep, analysis, logoConfig, fileError, processingStatus,
                  rawResult, processedImage >>
  /\ UNCHANGED << logoVars, parVars >>

\* handleFileUpload with a file over 5MB
UploadTooLarge ==
  /\ InputShown
  /\ fileError' = "Datei zu gross"
  /\ handler' = "tooLarge"
  /\ UNCHANGED << activeStep, analysis, logoConfig, processingStatus,
                  rawResult, processedImage >>
  /\ UNCHANGED << logoVars, parVars >>

\* handleFileUpload with a file: the reader is started
UploadStart ==
  /\ InputShown
  /\ fileError' = Null
  /\ activeStep' = 2
  /\ handler' = "reading"
  /\ UNCHANGED << analysis, logoConfig, processingStatus, rawResult, processedImage >>
  /\ UNCHANGED << logoVars, parVars >>

\* reader.onload up to await processLogo(rawResult)
ReaderLoad(result) ==
  /\ handler = "reading"
  /\ rawResult' = result
  /\ processingStatus' = "Hintergrund wird entfernt..."
  /\ handler' = "processLogo"
  /\ UNCHANGED << activeStep, analysis, logoConfig, fileError, processedImage >>
  /\ UNCHANGED << logoVars, parVars >>

\* processLogo resolved, up to await analyzeDesign(processedImage)
LogoProcessed(url) ==
  /\ handler = "processLogo"
  /\ IF rawResult = Null THEN url = Null ELSE url \in {rawResult, "dataURL"}
  /\ processedImage' = url
  /\ logoConfig' = [url |-> url, scale |-> DefaultScale]
  /\ processingStatus' = "KI prueft Druckbarkeit..."
  /\ handler' = "analyzeDesign"
  /\ UNCHANGED << activeStep, analysis, fileError, rawResult >>
  /\ UNCHANGED << logoVars, parVars >>

\* analyzeDesign settled: the rest of the try, or the catch, and the finally
DesignAnalyzed(ai) ==
  /\ handler = "analyzeDesign"
  /\ \E aiResult \in {AnalyzeDesign(processedImage, ai)} :
       IF aiResult.threw
         THEN /\ fileError' = "Systemfehler bei der Analyse."
              /\ activeStep' = 1
              /\ handler' = "failed"
              /\ UNCHANGED << analysis, logoConfig >>
         ELSE /\ analysis' = [present |-> TRUE, isPrintable |-> aiResult.isPrintable,
                              recommendedScale |-> aiResult.recommendedScale]
              /\ logoConfig' = IF aiResult.isPrintable
                                 THEN [logoConfig EXCEPT !.scale =
                                         IF aiResult.recommendedScale = 0
                                           THEN FallbackScale
                                           ELSE aiResult.recommendedScale]
                                 ELSE logoConfig
              /\ activeStep' = StepAfterAnalysis(aiResult, activeStep)
              /\ handler' = "finished"
              /\ UNCHANGED fileError
  /\ processingStatus' = ""
  /\ UNCHANGED << rawResult, processedImage >>
  /\ UNCHANGED << logoVars, parVars >>

\* the size slider of step 3
SetScale(value) ==
  /\ activeStep = 3 /\ analysis.present
  /\ logoConfig' = [logoConfig EXCEPT !.scale = value]
  /\ UNCHANGED << activeStep, analysis, fileError, processingStatus, handler,
                  rawResult, processedImage >>
  /\ UNCHANGED << logoVars, parVars >>

\* "Weiter zum Checkout"
ClickCheckout ==
  /\ activeStep = 3 /\ analysis.present
  /\ activeStep' = 4
  /\ UNCHANGED << analysis, logoConfig, fileError, processingStatus, handler,
                  rawResult, processedImage >>
  /\ UNCHANGED << logoVars, parVars >>

\* "Zurueck zur Anpassung"
ClickBack ==
  /\ activeStep = 4 /\ analysis.present
  /\ activeStep' = 3
  /\ UNCHANGED << analysis, logoConfig, fileError, processingStatus, handler,
                  rawResult, processedImage >>
  /\ UNCHANGED << logoVars, parVars >>

NextApp ==
  \/ UploadNoFile
  \/ UploadTooLarge
  \/ UploadStart
  \/ \E result \in {Null, "rawResult"} : ReaderLoad(result)
  \/ \E url \in {Null, "rawResult", "dataURL"} : LogoProcessed(url)
  \/ \E ai \in AiAnswers : DesignAnalyzed(ai)
  \/ \E value \in MinScale..MaxScale : SetScale(value)
  \/ ClickCheckout
  \/ ClickBack

SpecApp == InitApp /\ [][NextApp]_vars

(* ------------------------------ properties ----------------------------- *)
\* pass 1 found content, so palette, remap and crop sizes were computed
Processed == stage \in {"noFinalContext", "encoded"}

\* pass 1 ran
Scanned == stage \in {"noContent", "noFinalContext", "encoded"}

Pixels == 1..Len(img.data)

PaletteColor(j) == candidates[palette[j]]

Rgb(p) == [r |-> p.r, g |-> p.g, b |-> p.b]

\* C1: whenever some pixel is foreground, every pixel of the processed
\* buffer and every pixel of the cropped output has alpha 0 or 255.
C1_AlphaIsBinary ==
  Processed =>
    /\ \A k \in Pixels : data[k].a \in {0, Opaque}
    /\ \A k \in 1..Len(finalCanvas.pixels) : finalCanvas.pixels[k].a \in {0, Opaque}

\* C2: every pixel classified foreground in pass 1 carries, after the remap
\* pass, exactly the RGB of one palette member.
C2_ForegroundOnPalette ==
  Processed =>
    \A k \in Pixels :
      ~isBackground[k] => \E j \in 1..Len(palette) : Rgb(data[k]) = PaletteColor(j)

\* C3: whenever hasContent is true the palette has between 1 and 4 entries.
C3_PaletteSize ==
  hasContent => Len(palette) >= 1 /\ Len(palette) <= MaxPalette

\* C3 witness: more than four buckets were on offer and the palette stopped at four.
C3_Witness ==
  hasContent /\ Len(candidates) > MaxPalette /\ Len(palette) = MaxPalette

FarApart(c, d) == Dist2(c, d) >= MinDifference * MinDifference

PalettePairwiseFar ==
  \A i \in 1..Len(palette) : \A j \in 1..Len(palette) :
    i # j => FarApart(PaletteColor(i), PaletteColor(j))

PoolOffersFour ==
  \E S \in SUBSET (1..Len(candidates)) :
    /\ Cardinality(S) = MaxPalette
    /\ \A c \in S : \A d \in S : c # d => FarApart(candidates[c], candidates[d])

\* C4 as stated: a palette of 4 drawn from a pool that offers 4 pairwise
\* separated colours is itself pairwise separated by at least 45.
C4_Original ==
  (hasContent /\ Len(palette) = MaxPalette /\ PoolOffersFour) => PalettePairwiseFar

\* C4 amended: when the greedy selection itself admits all 4 entries (the
\* fallback adds none), every pair of palette colours is at distance >= 45.
C4_GreedyPairwiseFar ==
  (hasContent /\ distinct = MaxPalette) => PalettePairwiseFar

\* C4 witness: four entries, all admitted by the greedy loop, from a pool
\* that also held a colour too close to one of them.
C4_Witness ==
  /\ hasContent /\ distinct = MaxPalette /\ Len(palette) = MaxPalette
  /\ \E c \in 1..Len(candidates) : ~Includes(palette, c)

\* C5 as stated: counts never increase along the whole palette, fallback
\* entries included.
C5_Original ==
  \A i \in 1..Len(palette) : \A j \in 1..Len(palette) :
    i < j => counts[palette[i]] >= counts[palette[j]]

\* C5 amended: counts never increase along the greedy-admitted entries, nor
\* along the fallback entries appended behind them.
C5_OrderedWithinPhase ==
  \A i \in 1..Len(palette) : \A j \in 1..Len(palette) :
    (i < j /\ (j <= distinct \/ i > distinct))
      => counts[palette[i]] >= counts[palette[j]]

\* C5 witness: the greedy loop admitted buckets of different counts and the
\* fallback appended a bucket larger than the last greedy one.
C5_Witness ==
  /\ distinct >= 2 /\ Len(palette) > distinct
  /\ counts[palette[1]] > counts[palette[distinct]]
  /\ counts[palette[distinct + 1]] > counts[palette[distinct]]

Uniform == \A k \in Pixels : img.data[k] = img.data[1]

\* C6: when every pixel is classified background, in particular for a
\* uniform image, the promise resolves with the input reference and no
\* palette, remap or crop is made.
C6_AllBackgroundPassThrough ==
  /\ (Scanned /\ \A k \in Pixels : isBackground[k]) =>
        /\ stage = "noContent"
        /\ resolved = << "imageUrl" >>
        /\ candidates = << >> /\ palette = << >>
        /\ data = << >>
        /\ finalCanvas = NoCanvas
  /\ (Scanned /\ Uniform) => stage = "noContent"

\* C6 witness: a uniform image of several pixels was scanned and passed through.
C6_Witness ==
  stage = "noContent" /\ Uniform /\ Len(img.data) > 1 /\ resolved = << "imageUrl" >>

\* C7: a decode error and a failure of either getContext resolve with the
\* input reference, and resolve is never called twice.
C7_FailuresPassThrough ==
  /\ stage \in {"error", "noContext", "noFinalContext"} => resolved = << "imageUrl" >>
  /\ Len(resolved) <= 1
  /\ stage # "pending" => Len(resolved) = 1

\* C7 witness: content was found and remapped, then the crop context failed.
C7_Witness ==
  stage = "noFinalContext" /\ hasContent /\ Len(palette) > 0

CeilTenths(t) == (t + 9) \div 10

\* C8: the output is a square of side ceil(max(contentWidth, contentHeight) * 1.2).
C8_SideIsCeil ==
  Processed =>
    finalCanvas.side =
      CeilTenths(Max(maxX - minX + 1, maxY - minY + 1) * MarginTenths)

\* C9: the content rectangle is copied pixel for pixel to a place inside the
\* square, and everything outside the copy is transparent.
C9_ExactCopyInside ==
  stage = "encoded" =>
    LET cw == maxX - minX + 1
        ch == maxY - minY + 1
        side == finalCanvas.side
        Out(X, Y) == finalCanvas.pixels[Y * side + X + 1]
    IN  /\ finalCanvas.destX >= 0 /\ finalCanvas.destX + 10 * cw <= 10 * side
        /\ finalCanvas.destY >= 0 /\ finalCanvas.destY + 10 * ch <= 10 * side
        /\ \E ox \in 0..side : \E oy \in 0..side :
              /\ ox + cw <= side /\ oy + ch <= side
              /\ \A X \in 0..(side - 1) : \A Y \in 0..(side - 1) :
                    IF X >= ox /\ X < ox + cw /\ Y >= oy /\ Y < oy + ch
                      THEN Out(X, Y) = data[(minY + Y - oy) * img.width + (minX + X - ox) + 1]
                      ELSE Out(X, Y).a = 0

\* C10: with the reference read from pixel 0 before any mutation, a pixel is
\* background iff its alpha is below 20 when the reference alpha is 0, and
\* iff its RGB lies within distance 40 of the reference otherwise.
C10_Classification ==
  Scanned =>
    \A k \in Pixels :
      isBackground[k] <=>
        IF img.data[1].a = 0
          THEN img.data[k].a < 20
          ELSE Dist2(img.data[k], img.data[1]) < 1600

\* C10 witness: in alpha mode a low-alpha pixel far from the reference colour
\* went to background while an opaque pixel stayed foreground.
C10_Witness ==
  /\ Scanned /\ img.data[1].a = 0
  /\ \E k \in Pixels : isBackground[k] /\ Dist2(img.data[k], img.data[1]) >= 1600
  /\ \E k \in Pixels : ~isBackground[k] /\ Dist2(img.data[k], img.data[1]) < 1600

\* the average colour of the bucket that pixel p was accumulated into
BucketAverage(p) ==
  LET b == CHOOSE b \in {colorAccumulator[j] : j \in 1..Len(colorAccumulator)} :
             b.key = BucketKey(p)
  IN  [r |-> Round(b.r, b.count), g |-> Round(b.g, b.count), b |-> Round(b.b, b.count)]

FiveFarRegions ==
  /\ Processed /\ Len(candidates) = 5
  /\ \A c \in 1..5 : \A d \in 1..5 : c # d => FarApart(candidates[c], candidates[d])

\* C11: with 5 regions pairwise >= 45 apart, the palette is the 4 regions of
\* highest pixel count and every pixel of the remaining region carries,
\* after the remap, the palette colour nearest to its own colour.
C11_FiveRegions ==
  FiveFarRegions =>
    /\ Len(palette) = MaxPalette
    /\ \A i \in 1..Len(palette) : \A j \in 1..Len(palette) : i # j => palette[i] # palette[j]
    /\ \A c \in 1..5 : ~Includes(palette, c) =>
          \A j \in 1..Len(palette) : counts[palette[j]] >= counts[c]
    /\ \A k \in Pixels :
          (~isBackground[k] /\ \A j \in 1..Len(palette) : PaletteColor(j) # BucketAverage(img.data[k]))
            => \E j \in 1..Len(palette) :
                 /\ Rgb(data[k]) = PaletteColor(j)
                 /\ \A i \in 1..Len(palette) :
                       Dist2(img.data[k], PaletteColor(j)) <= Dist2(img.data[k], PaletteColor(i))

\* the same, for regions whose pixels are all visible (alpha not 0)
C11_VisibleRegions ==
  (FiveFarRegions /\ \A k \in Pixels : img.data[k].a # 0) => C11_FiveRegions

\* the image that the resolved data URL decodes to
OutputImage ==
  [width |-> finalCanvas.side, height |-> finalCanvas.side, data |-> finalCanvas.pixels]

\* the palette colours, in order, computed from buckets in insertion order acc
PaletteOfBuckets(acc) ==
  LET cands == Candidates(SortBuckets(acc))
      pal == Fallback(cands, Greedy(cands))
  IN  [j \in 1..Len(pal) |-> cands[pal[j]]]

\* C12: a second run on the output of a first (non-pass-through) run finds
\* content again, computes the same palette and a bounding box of the same
\* width and height.
C12_RerunSame ==
  stage = "encoded" =>
    LET fp2 == FirstPass(OutputImage)
    IN  /\ fp2.hasContent
        /\ PaletteOfBuckets(fp2.acc) = [j \in 1..Len(palette) |-> PaletteColor(j)]
        /\ fp2.maxX - fp2.minX = maxX - minX
        /\ fp2.maxY - fp2.minY = maxY - minY

\* the remapped buffer computed from buckets in insertion order acc
RemapOfBuckets(acc) ==
  LET cands == Candidates(SortBuckets(acc))
  IN  Remap(maskedData, cands, Fallback(cands, Greedy(cands)))

\* the orders in which the same n buckets can be presented
Orders(n) == {f \in [1..n -> 1..n] : \A i \in 1..n : \E j \in 1..n : f[j] = i}

Reordered(acc, f) == [j \in 1..Len(acc) |-> acc[f[j]]]

SameForEveryOrder ==
  \A f \in Orders(Len(colorAccumulator)) :
    /\ PaletteOfBuckets(Reordered(colorAccumulator, f)) = PaletteOfBuckets(colorAccumulator)
    /\ RemapOfBuckets(Reordered(colorAccumulator, f)) = RemapOfBuckets(colorAccumulator)

CountsAllDiffer ==
  \A i \in 1..Len(counts) : \A j \in 1..Len(counts) : i # j => counts[i] # counts[j]

\* C13 as stated: the palette and the remapped buffer are the same for
\* every order of the same buckets, equal counts included.
C13_Original == Processed => SameForEveryOrder

\* C13 amended: the palette and the remapped buffer are the same for every
\* order of the same buckets when no two buckets have the same pixel count.
C13_OrderIndependentWithoutTies == (Processed /\ CountsAllDiffer) => SameForEveryOrder

\* C13 witness: two or more buckets of different counts were inserted with
\* the smaller one first, so that the sort had to reorder them.
C13_Witness ==
  /\ Processed /\ CountsAllDiffer /\ Len(colorAccumulator) >= 2
  /\ colorAccumulator[1].count < colorAccumulator[2].count
  /\ Len(palette) >= 2

XOf(k) == (k - 1) % img.width

YOf(k) == (k - 1) \div img.width

Foreground == {k \in Pixels : ~isBackground[k]}

\* C15: with hasContent true the box is inside the image, holds every
\* foreground pixel and has a foreground pixel on each of its four edges;
\* without content no crop is made from it.
C15_BoundingBox ==
  /\ hasContent =>
        /\ 0 <= minX /\ minX <= maxX /\ maxX < img.width
        /\ 0 <= minY /\ minY <= maxY /\ maxY < img.height
        /\ \A k \in Foreground :
              /\ minX <= XOf(k) /\ XOf(k) <= maxX
              /\ minY <= YOf(k) /\ YOf(k) <= maxY
        /\ \E k \in Foreground : XOf(k) = minX
        /\ \E k \in Foreground : XOf(k) = maxX
        /\ \E k \in Foreground : YOf(k) = minY
        /\ \E k \in Foreground : YOf(k) = maxY
  /\ (Scanned /\ ~hasContent) => finalCanvas = NoCanvas

\* C15 witness: several foreground pixels in a box that is smaller than the image.
C15_Witness ==
  hasContent /\ minX > 0 /\ maxY > minY /\ Cardinality(Foreground) >= 2

\* C16: every remapped pixel carries the palette entry nearest to its colour
\* before the remap, the earliest such entry when several are equally near.
C16_NearestEarliest ==
  Processed =>
    \A k \in Pixels :
      maskedData[k].a # 0 =>
        \E j \in 1..Len(palette) :
          /\ data[k] = Px(PaletteColor(j).r, PaletteColor(j).g, PaletteColor(j).b, Opaque)
          /\ \A i \in 1..Len(palette) :
                Dist2(maskedData[k], PaletteColor(j)) <= Dist2(maskedData[k], PaletteColor(i))
          /\ \A i \in 1..(j - 1) :
                Dist2(maskedData[k], PaletteColor(j)) < Dist2(maskedData[k], PaletteColor(i))

\* C16 witness: a remapped pixel had two palette entries at the same,
\* smallest distance and took the earlier one, which is not the first entry.
C16_Witness ==
  /\ Processed
  /\ \E k \in Pixels : \E i \in 1..Len(palette) : \E j \in 1..Len(palette) :
        /\ maskedData[k].a # 0 /\ 1 < i /\ i < j
        /\ Dist2(maskedData[k], PaletteColor(i)) = Dist2(maskedData[k], PaletteColor(j))
        /\ \A h \in 1..Len(palette) :
              Dist2(maskedData[k], PaletteColor(i)) <= Dist2(maskedData[k], PaletteColor(h))
        /\ Rgb(data[k]) = PaletteColor(i)

\* C17: a background pixel only loses its alpha, in pass 1, and keeps its
\* R, G and B through both passes; pass 1 changes nothing of a foreground pixel.
C17_BackgroundFrame ==
  Scanned =>
    \A k \in Pixels :
      IF isBackground[k]
        THEN /\ maskedData[k] = [img.data[k] EXCEPT !.a = 0]
             /\ Processed => data[k] = maskedData[k]
        ELSE maskedData[k] = img.data[k]

\* C17 witness: a visible background pixel whose colour is not in the palette
\* went through the remap next to a half transparent foreground pixel.
C17_Witness ==
  /\ Processed
  /\ \E k \in Pixels :
        /\ isBackground[k] /\ img.data[k].a = Opaque
        /\ \A j \in 1..Len(palette) : Rgb(img.data[k]) # PaletteColor(j)
  /\ \E k \in Foreground : img.data[k].a \notin {0, Opaque}

\* the buckets of the sequential scan, without their insertion order
BucketSet(acc) == {acc[j] : j \in 1..Len(acc)}

\* C14: workers on a partition of the rows, in any interleaving, followed
\* by the reduction give the alpha mask, the buckets, the bounding box and
\* hasContent of the sequential scan.
C14_ParallelEqualsSequential ==
  merged.done =>
    LET fp == FirstPass(img)
    IN  /\ sharedData = fp.data
        /\ merged.buckets = BucketSet(fp.acc)
        /\ merged.minX = fp.minX /\ merged.maxX = fp.maxX
        /\ merged.minY = fp.minY /\ merged.maxY = fp.maxY
        /\ merged.hasContent = fp.hasContent

\* C14 witness: both workers found foreground, one bucket got pixels from
\* both of them, and some pixel went to background.
C14_Witness ==
  /\ merged.done
  /\ \A w \in Workers : workerLocal[w].hasContent
  /\ \E a \in workerLocal["w1"].buckets : \E b \in workerLocal["w2"].buckets :
        a.key = b.key
  /\ \E k \in 1..Len(sharedData) : sharedData[k].a = 0 /\ img.data[k].a # 0

HandlerAtRest == handler \in {"idle", "noFile", "tooLarge", "finished", "failed"}

\* C18: activeStep is 3 or 4 only with a printable analysis and a logo url;
\* an exception in processing or analysis leaves activeStep 1 with fileError
\* set; processingStatus is empty whenever the upload handler has ended.
C18_UploadFlow ==
  /\ activeStep \in {3, 4} =>
        /\ analysis.present /\ analysis.isPrintable
        /\ logoConfig.url # Null
  /\ handler = "failed" => activeStep = 1 /\ fileError # Null
  /\ HandlerAtRest => processingStatus = ""

\* C18 witness: an upload was processed to a data URL and found printable,
\* the user moved the size slider and went on to step 4.
C18_Witness ==
  /\ activeStep = 4 /\ handler = "finished"
  /\ analysis.present /\ logoConfig.url = "dataURL"
  /\ logoConfig.scale # analysis.recommendedScale

====
